---------------------------- MODULE Spec2Model ----------------------------
(***************************************************************************)
(* A model of the benchmark-result tooling of ai_sre_data:                  *)
(*   src/benchmark_analyzer.py                          (loader A, reports) *)
(*   src/result-analyse/analyze_benchmark_results.py    (loader B, tables)  *)
(*   src/remove_supervisor.py                           (field stripping)   *)
(*                                                                         *)
(* Python values.  A string is the sequence of its characters, so that      *)
(* split, join, lower and the substring test are computed, not assumed.     *)
(* A JSON value that may be null is None (the empty tuple) or <<v>>.  A     *)
(* dict is a function whose DOMAIN is the set of keys present.              *)
(***************************************************************************)
EXTENDS Integers, Sequences, FiniteSets, TLC

VARIABLES
    rs_pc, rs_results, rs_sup, rs_json, rs_res,      \* success resolution
    corpus, run, pos, called, removed, written, prev, summary,
                                                      \* remove_supervisor.py
    stats, processed,                                 \* analyze_results
    supervisor, results, report,                      \* benchmark_analyzer.py
    program, outcome,                                 \* the pipeline that runs, and its main
    cl_in, cl_out,                                    \* the classifiers
    ec_lines, ec_i, ec_res, ec_pairs, ec_pc           \* extract_conversations.py

vars == << rs_pc, rs_results, rs_sup, rs_json, rs_res,
           corpus, run, pos, called, removed, written, prev, summary,
           stats, processed, supervisor, results, report,
           program, outcome, cl_in, cl_out,
           ec_lines, ec_i, ec_res, ec_pairs, ec_pc >>

rsVars    == << rs_pc, rs_results, rs_sup, rs_json, rs_res >>
stripVars == << corpus, run, pos, called, removed, written, prev, summary >>
aggVars   == << stats, processed >>
obsVars   == << supervisor, results, report >>
mainVars  == << program, outcome >>
clVars    == << cl_in, cl_out >>
ecVars    == << ec_lines, ec_i, ec_res, ec_pairs, ec_pc >>

-----------------------------------------------------------------------------
(* Python helpers *)

None == << >>

Some(v) == << v >>

\* A JSON value that is a mapping, and one that is not (a list, a string):
\* isinstance(v, dict) is IsDict(v).
Dict(d) == << "dict", d >>

NotADict == << "list", << >> >>

IsDict(v) == v[1] = "dict"

\* dict.get(k, default)
Get(d, k, default) == IF k \in DOMAIN d THEN d[k] ELSE default

\* del d[k]
Del(d, k) == [x \in DOMAIN d \ {k} |-> d[x]]

\* d[k] = v
Put(d, k, v) == [x \in DOMAIN d \cup {k} |-> IF x = k THEN v ELSE d[x]]

UpperChars == << "A", "B", "C", "D", "E", "F", "G", "H", "I", "J", "K", "L", "M",
                 "N", "O", "P", "Q", "R", "S", "T", "U", "V", "W", "X", "Y", "Z" >>

LowerChars == << "a", "b", "c", "d", "e", "f", "g", "h", "i", "j", "k", "l", "m",
                 "n", "o", "p", "q", "r", "s", "t", "u", "v", "w", "x", "y", "z" >>

\* str.lower()
Lower(s) ==
    [i \in 1..Len(s) |->
        IF \E j \in 1..Len(UpperChars) : UpperChars[j] = s[i]
        THEN LowerChars[CHOOSE j \in 1..Len(UpperChars) : UpperChars[j] = s[i]]
        ELSE s[i]]

\* sub in s   (also re.search of a literal pattern)
Contains(sub, s) ==
    \E i \in 0..(Len(s) - Len(sub)) : SubSeq(s, i + 1, i + Len(sub)) = sub

\* s.split(sep) for a one-character separator: never the empty list
RECURSIVE Split(_, _)
Split(s, sep) ==
    IF \E i \in 1..Len(s) : s[i] = sep
    THEN LET i == CHOOSE k \in 1..Len(s) :
                      s[k] = sep /\ \A m \in 1..(k - 1) : s[m] # sep
         IN  << SubSeq(s, 1, i - 1) >> \o Split(SubSeq(s, i + 1, Len(s)), sep)
    ELSE << s >>

\* sep.join(parts)
RECURSIVE Join(_, _)
Join(parts, sep) ==
    IF Len(parts) = 0 THEN << >>
    ELSE IF Len(parts) = 1 THEN parts[1]
    ELSE parts[1] \o << sep >> \o Join(Tail(parts), sep)

\* sum(xs) over a sequence of integers
RECURSIVE SumSeq(_)
SumSeq(xs) == IF Len(xs) = 0 THEN 0 ELSE Head(xs) + SumSeq(Tail(xs))

\* The set of the elements of a sequence.
Range(xs) == { xs[i] : i \in 1..Len(xs) }

-----------------------------------------------------------------------------
(* String literals of the source *)

s_detection == <<"d", "e", "t", "e", "c", "t", "i", "o", "n">>

s_localization == <<"l", "o", "c", "a", "l", "i", "z", "a", "t", "i", "o", "n">>

s_analysis == <<"a", "n", "a", "l", "y", "s", "i", "s">>

s_mitigation == <<"m", "i", "t", "i", "g", "a", "t", "i", "o", "n">>

s_detect == <<"d", "e", "t", "e", "c", "t">>

s_unknown == <<"u", "n", "k", "n", "o", "w", "n">>

pid_k8s_detection == <<"k", "8", "s", "_", "t", "a", "r", "g", "e", "t", "_", "p", "o", "r", "t", "-", "d", "e", "t", "e", "c", "t", "i", "o", "n", "-", "1">>

pid_noop_mitigation == <<"n", "o", "_", "o", "p", "-", "m", "i", "t", "i", "g", "a", "t", "i", "o", "n", "-", "1">>

pid_localization == <<"n", "e", "t", "w", "o", "r", "k", "_", "l", "o", "s", "s", "-", "l", "o", "c", "a", "l", "i", "z", "a", "t", "i", "o", "n", "-", "1">>

pid_plain == <<"m", "i", "s", "c">>

pid_Detect == <<"p", "o", "d", "_", "k", "i", "l", "l", "-", "D", "e", "t", "e", "c", "t", "-", "2">>

pid_analysis == <<"s", "c", "a", "l", "e", "_", "p", "o", "d", "-", "a", "n", "a", "l", "y", "s", "i", "s", "-", "1">>


categories ==
  << [category |-> "infrastructure", problems |-> <<
        <<"k", "8", "s", "_", "t", "a", "r", "g", "e", "t", "_", "p", "o", "r", "t">>,
        <<"a", "u", "t", "h", "_", "m", "i", "s", "s", "_", "m", "o", "n", "g", "o", "d", "b">>,
        <<"r", "e", "v", "o", "k", "e", "_", "a", "u", "t", "h", "_", "m", "o", "n", "g", "o", "d", "b">>,
        <<"s", "t", "o", "r", "a", "g", "e", "_", "u", "s", "e", "r", "_", "u", "n", "r", "e", "g", "i", "s", "t", "e", "r", "e", "d">>,
        <<"r", "e", "d", "e", "p", "l", "o", "y", "_", "w", "i", "t", "h", "o", "u", "t", "_", "p", "v">>,
        <<"n", "e", "t", "w", "o", "r", "k", "_", "l", "o", "s", "s">>,
        <<"n", "e", "t", "w", "o", "r", "k", "_", "d", "e", "l", "a", "y">>,
        <<"k", "e", "r", "n", "e", "l", "_", "f", "a", "u", "l", "t">>,
        <<"d", "i", "s", "k", "_", "w", "o", "r", "e", "o", "u", "t">> >>],
     [category |-> "application", problems |-> <<
        <<"m", "i", "s", "c", "o", "n", "f", "i", "g", "_", "a", "p", "p">>,
        <<"a", "d", "_", "s", "e", "r", "v", "i", "c", "e", "_", "f", "a", "i", "l", "u", "r", "e">>,
        <<"a", "d", "_", "s", "e", "r", "v", "i", "c", "e", "_", "h", "i", "g", "h", "_", "c", "p", "u">>,
        <<"a", "d", "_", "s", "e", "r", "v", "i", "c", "e", "_", "m", "a", "n", "u", "a", "l", "_", "g", "c">>,
        <<"c", "a", "r", "t", "_", "s", "e", "r", "v", "i", "c", "e", "_", "f", "a", "i", "l", "u", "r", "e">>,
        <<"p", "a", "y", "m", "e", "n", "t", "_", "s", "e", "r", "v", "i", "c", "e", "_", "f", "a", "i", "l", "u", "r", "e">>,
        <<"p", "a", "y", "m", "e", "n", "t", "_", "s", "e", "r", "v", "i", "c", "e", "_", "u", "n", "r", "e", "a", "c", "h", "a", "b", "l", "e">>,
        <<"p", "r", "o", "d", "u", "c", "t", "_", "c", "a", "t", "a", "l", "o", "g", "_", "f", "a", "i", "l", "u", "r", "e">>,
        <<"r", "e", "c", "o", "m", "m", "e", "n", "d", "a", "t", "i", "o", "n", "_", "s", "e", "r", "v", "i", "c", "e", "_", "c", "a", "c", "h", "e", "_", "f", "a", "i", "l", "u", "r", "e">>,
        <<"i", "m", "a", "g", "e", "_", "s", "l", "o", "w", "_", "l", "o", "a", "d">>,
        <<"l", "o", "a", "d", "g", "e", "n", "e", "r", "a", "t", "o", "r", "_", "f", "l", "o", "o", "d", "_", "h", "o", "m", "e", "p", "a", "g", "e">>,
        <<"k", "a", "f", "k", "a", "_", "q", "u", "e", "u", "e", "_", "p", "r", "o", "b", "l", "e", "m", "s">>,
        <<"f", "l", "o", "w", "e", "r", "_", "m", "o", "d", "e", "l", "_", "m", "i", "s", "c", "o", "n", "f", "i", "g">> >>],
     [category |-> "operational", problems |-> <<
        <<"s", "c", "a", "l", "e", "_", "p", "o", "d">>,
        <<"a", "s", "s", "i", "g", "n", "_", "n", "o", "n", "_", "e", "x", "i", "s", "t", "e", "n", "t", "_", "n", "o", "d", "e">>,
        <<"c", "o", "n", "t", "a", "i", "n", "e", "r", "_", "k", "i", "l", "l">>,
        <<"p", "o", "d", "_", "f", "a", "i", "l", "u", "r", "e">>,
        <<"p", "o", "d", "_", "k", "i", "l", "l">>,
        <<"w", "r", "o", "n", "g", "_", "b", "i", "n", "_", "u", "s", "a", "g", "e">>,
        <<"o", "p", "e", "r", "a", "t", "o", "r", "_", "m", "i", "s", "o", "p", "e", "r", "a", "t", "i", "o", "n">>,
        <<"f", "l", "o", "w", "e", "r", "_", "n", "o", "d", "e", "_", "s", "t", "o", "p">> >>],
     [category |-> "baseline", problems |-> <<
        <<"n", "o", "_", "o", "p">> >>] >>

-----------------------------------------------------------------------------
(* Classifiers *)

\* benchmark_analyzer.py: extract_task_type.  problem_id is None or Some(str).
task_types == << s_detection, s_localization, s_analysis, s_mitigation >>

\* A loop over task_types with no early return: the last match is kept.
extract_task_type_LastWins(problem_id) ==
    IF problem_id = None \/ problem_id = Some(<< >>)
    THEN s_unknown
    ELSE LET hits == { i \in 1..Len(task_types) :
                         Contains(task_types[i], Lower(problem_id[1])) }
         IN  IF hits = {} THEN s_unknown
             ELSE task_types[CHOOSE i \in hits : \A j \in hits : i >= j]

extract_task_type(problem_id) ==
    IF problem_id = None \/ problem_id = Some(<< >>)
    THEN s_unknown
    ELSE LET hits == { i \in 1..Len(task_types) :
                         Contains(task_types[i], Lower(problem_id[1])) }
         IN  IF hits = {} THEN s_unknown
             ELSE task_types[CHOOSE i \in hits : \A j \in hits : i <= j]

\* The task type read from the last segment instead of the one before it.
extract_problem_info_LastSegment(problem_id) ==
    LET parts == Split(problem_id, "-")
    IN  IF Len(parts) >= 2
        THEN << Join(SubSeq(parts, 1, Len(parts) - 1), "-"), parts[Len(parts)] >>
        ELSE << problem_id, s_unknown >>

\* analyze_benchmark_results.py: extract_problem_info, on a str.
\* The result is << problem_base, task_type >>.
extract_problem_info(problem_id) ==
    LET parts == Split(problem_id, "-")
    IN  IF Len(parts) >= 2
        THEN << Join(SubSeq(parts, 1, Len(parts) - 2), "-"), parts[Len(parts) - 1] >>
        ELSE << problem_id, s_unknown >>

\* A loop over the categories with no early return: the last match is kept.
categorize_problem_type_LastWins(problem_base) ==
    LET hits == { i \in 1..Len(categories) :
                    \E j \in 1..Len(categories[i].problems) :
                        Contains(categories[i].problems[j], problem_base) }
    IN  IF hits = {} THEN "other"
        ELSE categories[CHOOSE i \in hits : \A j \in hits : i >= j].category

\* analyze_benchmark_results.py: categorize_problem_type.
categorize_problem_type(problem_base) ==
    LET hits == { i \in 1..Len(categories) :
                    \E j \in 1..Len(categories[i].problems) :
                        Contains(categories[i].problems[j], problem_base) }
    IN  IF hits = {} THEN "other"
        ELSE categories[CHOOSE i \in hits : \A j \in hits : i <= j].category

\* remove_supervisor.py: is_detection_task, on a str.
detection_patterns == << s_detection, s_detect >>

is_detection_task(problem_id) ==
    \E i \in 1..Len(detection_patterns) :
        Contains(detection_patterns[i], Lower(problem_id))

-----------------------------------------------------------------------------
(* Success resolution *)

AccuracyKeys == << "Detection Accuracy", "Localization Accuracy",
                   "Analysis Accuracy", "Mitigation Accuracy", "Accuracy" >>

\* x == 'Correct', as a stored Python bool
IsCorrect(x) == Some(x = Some("Correct"))

\* A Detection Accuracy branch that accepts an absent supervisor_result.
DetectionSuccess_AbsentPasses(results_data, is_supervisor_enabled) ==
    IF is_supervisor_enabled
    THEN Some(/\ results_data["Detection Accuracy"] = Some("Correct")
              /\ Get(results_data, "supervisor_result", Some("Correct")) = Some("Correct"))
    ELSE IsCorrect(results_data["Detection Accuracy"])

\* benchmark_analyzer.py, analyze_json_files: the Detection Accuracy branch,
\* with result['supervisor_result'] = results.get('supervisor_result', None).
DetectionSuccess(results_data, is_supervisor_enabled) ==
    LET supervisor_result == Get(results_data, "supervisor_result", None)
    IN  IF is_supervisor_enabled
        THEN Some(/\ results_data["Detection Accuracy"] = Some("Correct")
                  /\ supervisor_result = Some("Correct"))
        ELSE IsCorrect(results_data["Detection Accuracy"])

\* The chain with the Detection Accuracy test ahead of the success test.
SuccessJson_AccuracyFirst(results_data, is_supervisor_enabled) ==
    IF "Detection Accuracy" \in DOMAIN results_data
    THEN DetectionSuccess(results_data, is_supervisor_enabled)
    ELSE IF "success" \in DOMAIN results_data
    THEN Get(results_data, "success", Some(FALSE))
    ELSE IF "Localization Accuracy" \in DOMAIN results_data
    THEN IsCorrect(results_data["Localization Accuracy"])
    ELSE IF "Analysis Accuracy" \in DOMAIN results_data
    THEN IsCorrect(results_data["Analysis Accuracy"])
    ELSE IF "Mitigation Accuracy" \in DOMAIN results_data
    THEN IsCorrect(results_data["Mitigation Accuracy"])
    ELSE IF "Accuracy" \in DOMAIN results_data
    THEN IsCorrect(results_data["Accuracy"])
    ELSE None

\* benchmark_analyzer.py, analyze_json_files: the value left in
\* result['success'] for a results mapping, None when no branch is taken.
SuccessJson(results_data, is_supervisor_enabled) ==
    IF "success" \in DOMAIN results_data
    THEN Get(results_data, "success", Some(FALSE))
    ELSE IF "Detection Accuracy" \in DOMAIN results_data
    THEN DetectionSuccess(results_data, is_supervisor_enabled)
    ELSE IF "Localization Accuracy" \in DOMAIN results_data
    THEN IsCorrect(results_data["Localization Accuracy"])
    ELSE IF "Analysis Accuracy" \in DOMAIN results_data
    THEN IsCorrect(results_data["Analysis Accuracy"])
    ELSE IF "Mitigation Accuracy" \in DOMAIN results_data
    THEN IsCorrect(results_data["Mitigation Accuracy"])
    ELSE IF "Accuracy" \in DOMAIN results_data
    THEN IsCorrect(results_data["Accuracy"])
    ELSE None

\* The chain with the generic Accuracy test ahead of the task-specific ones.
SuccessResults_GenericFirst(res) ==
    IF "success" \in DOMAIN res
    THEN << Get(res, "success", Some(FALSE)), Some("success") >>
    ELSE IF "Accuracy" \in DOMAIN res
    THEN << IsCorrect(res["Accuracy"]), Some("Accuracy") >>
    ELSE IF "Detection Accuracy" \in DOMAIN res
    THEN << IsCorrect(res["Detection Accuracy"]), Some("Detection Accuracy") >>
    ELSE IF "Localization Accuracy" \in DOMAIN res
    THEN << IsCorrect(res["Localization Accuracy"]), Some("Localization Accuracy") >>
    ELSE IF "Analysis Accuracy" \in DOMAIN res
    THEN << IsCorrect(res["Analysis Accuracy"]), Some("Analysis Accuracy") >>
    ELSE IF "Mitigation Accuracy" \in DOMAIN res
    THEN << IsCorrect(res["Mitigation Accuracy"]), Some("Mitigation Accuracy") >>
    ELSE << Some(FALSE), None >>

\* analyze_benchmark_results.py, analyze_results: << success, success_field >>
\* after the if/elif chain; success starts as False, success_field as None.
SuccessResults(res) ==
    IF "success" \in DOMAIN res
    THEN << Get(res, "success", Some(FALSE)), Some("success") >>
    ELSE IF "Detection Accuracy" \in DOMAIN res
    THEN << IsCorrect(res["Detection Accuracy"]), Some("Detection Accuracy") >>
    ELSE IF "Localization Accuracy" \in DOMAIN res
    THEN << IsCorrect(res["Localization Accuracy"]), Some("Localization Accuracy") >>
    ELSE IF "Analysis Accuracy" \in DOMAIN res
    THEN << IsCorrect(res["Analysis Accuracy"]), Some("Analysis Accuracy") >>
    ELSE IF "Mitigation Accuracy" \in DOMAIN res
    THEN << IsCorrect(res["Mitigation Accuracy"]), Some("Mitigation Accuracy") >>
    ELSE IF "Accuracy" \in DOMAIN res
    THEN << IsCorrect(res["Accuracy"]), Some("Accuracy") >>
    ELSE << Some(FALSE), None >>

\* if success:   for a stored bool or None
Truthy(success) == success = Some(TRUE)

-----------------------------------------------------------------------------
(* Initial values of the parts a specification does not run *)

IdleResolve ==
    /\ rs_pc = "idle" /\ rs_results = << >> /\ rs_sup = FALSE
    /\ rs_json = None /\ rs_res = << None, None >>

IdleStrip ==
    /\ corpus = << >> /\ run = "idle" /\ pos = 0 /\ called = << >>
    /\ removed = << >> /\ written = << >> /\ prev = << >> /\ summary = << >>

IdleAgg == stats = << >> /\ processed = << >>

IdleObs == supervisor = FALSE /\ results = << >> /\ report = << >>

NoOutcome == [status |-> "pending", reports |-> {}]

IdleMain == program = "none" /\ outcome = NoOutcome

IdleClassify ==
    /\ cl_in = [segs |-> << >>, problem_id |-> << >>]
    /\ cl_out = [done |-> FALSE]

IdleExtract ==
    /\ ec_lines = << >> /\ ec_i = 0 /\ ec_res = << >> /\ ec_pairs = << >>
    /\ ec_pc = "idle"

-----------------------------------------------------------------------------
(* SpecResolve: the two loaders' success resolution on one results mapping *)

\* Every dict of S, and every such dict with key k added at a value of V.
ExtendDicts(S, k, V) == S \cup { d @@ (k :> v) : d \in S, v \in V }

RECURSIVE ExtendAll(_, _, _)
ExtendAll(S, keys, V) ==
    IF Len(keys) = 0 THEN S
    ELSE ExtendAll(ExtendDicts(S, Head(keys), V), Tail(keys), V)

AccuracyValues == { Some("Correct"), Some("Incorrect") }

SupervisorValues == { Some("Correct"), Some("Incorrect"), None }

ResolveInputs ==
    ExtendDicts(
        ExtendDicts(ExtendAll({ << >> }, AccuracyKeys, AccuracyValues),
                    "success", { Some(TRUE), Some(FALSE) }),
        "supervisor_result", SupervisorValues)

InitResolve ==
    /\ rs_pc = "input"
    /\ rs_results \in ResolveInputs
    /\ rs_sup \in BOOLEAN
    /\ rs_json = None
    /\ rs_res = << None, None >>
    /\ IdleStrip /\ IdleAgg /\ IdleObs /\ IdleMain /\ IdleClassify /\ IdleExtract

Resolve ==
    /\ rs_pc = "input"
    /\ rs_json' = SuccessJson(rs_results, rs_sup)
    /\ rs_res' = SuccessResults(rs_results)
    /\ rs_pc' = "done"
    /\ UNCHANGED << rs_results, rs_sup, stripVars, aggVars, obsVars, mainVars, clVars, ecVars >>

NextResolve == Resolve

SpecResolve == InitResolve /\ [][NextResolve]_vars

\* The first accuracy-style key present, in the fixed order; 0 when none is.
FirstAccuracy(d) ==
    LET hits == { i \in 1..Len(AccuracyKeys) : AccuracyKeys[i] \in DOMAIN d }
    IN  IF hits = {} THEN 0 ELSE CHOOSE i \in hits : \A j \in hits : i <= j

\* C1: a results mapping that holds the key success resolves, in both
\* loaders, to that value verbatim, whatever accuracy fields,
\* supervisor_result and supervisor flag come with it.
C1_SuccessVerbatim ==
    (rs_pc = "done" /\ "success" \in DOMAIN rs_results)
        => /\ rs_json = rs_results["success"]
           /\ rs_res[1] = rs_results["success"]

C1_Witness ==
    /\ rs_pc = "done" /\ rs_sup
    /\ "success" \in DOMAIN rs_results /\ rs_results["success"] = Some(TRUE)
    /\ "Detection Accuracy" \in DOMAIN rs_results
    /\ rs_results["Detection Accuracy"] = Some("Incorrect")
    /\ "supervisor_result" \in DOMAIN rs_results
    /\ rs_results["supervisor_result"] = Some("Incorrect")

\* C2: in analyze_json_files, without success and with Detection Accuracy,
\* the record succeeds iff Detection Accuracy is "Correct" and, when the
\* supervisor is enabled, supervisor_result is present and "Correct"; with
\* the supervisor disabled supervisor_result plays no part.
C2_DetectionSupervisor ==
    (/\ rs_pc = "done"
     /\ "success" \notin DOMAIN rs_results
     /\ "Detection Accuracy" \in DOMAIN rs_results)
        => rs_json = Some(/\ rs_results["Detection Accuracy"] = Some("Correct")
                          /\ rs_sup => /\ "supervisor_result" \in DOMAIN rs_results
                                       /\ rs_results["supervisor_result"] = Some("Correct"))

C2_Witness ==
    /\ rs_pc = "done" /\ rs_sup
    /\ "success" \notin DOMAIN rs_results
    /\ "Detection Accuracy" \in DOMAIN rs_results
    /\ rs_results["Detection Accuracy"] = Some("Correct")
    /\ "supervisor_result" \notin DOMAIN rs_results
    /\ rs_json = Some(FALSE)

\* C4: without success, the first accuracy key present in the order
\* Detection, Localization, Analysis, Mitigation, Accuracy decides alone:
\* success iff its value is "Correct" (and, for Detection Accuracy in
\* analyze_json_files, the supervisor condition); later keys change nothing.
C4_FirstKeyDecides ==
    (/\ rs_pc = "done"
     /\ "success" \notin DOMAIN rs_results
     /\ FirstAccuracy(rs_results) # 0)
        => LET k == AccuracyKeys[FirstAccuracy(rs_results)]
               correct == rs_results[k] = Some("Correct")
               supervised ==
                   (k = "Detection Accuracy" /\ rs_sup)
                       => Get(rs_results, "supervisor_result", None) = Some("Correct")
           IN  /\ rs_res = << Some(correct), Some(k) >>
               /\ rs_json = Some(correct /\ supervised)

C4_Witness ==
    /\ rs_pc = "done"
    /\ DOMAIN rs_results = { "Mitigation Accuracy", "Accuracy" }
    /\ rs_results["Mitigation Accuracy"] = Some("Incorrect")
    /\ rs_results["Accuracy"] = Some("Correct")
    /\ rs_res[1] = Some(FALSE) /\ rs_json = Some(FALSE)

-----------------------------------------------------------------------------
(* SpecStrip: remove_supervisor.py, process_directory run twice on a corpus *)

MaxFiles == 2

Files == 1..MaxFiles

\* What a file holds: a JSON document, or text json.load rejects.  A write
\* followed by the next run's json.load returns the document written.
Parsed(doc) == << "json", doc >>

Garbage == << "text" >>

fields_to_remove == << "supervisor_result", "supervisor_explanation" >>

StripResults ==
    { Dict(d) : d \in { << >>,
                        [supervisor_result |-> Some("Correct")],
                        [supervisor_explanation |-> Some("ok")],
                        [supervisor_result |-> Some("Incorrect"),
                         supervisor_explanation |-> Some("ok"),
                         success |-> Some(TRUE)],
                        [success |-> Some(FALSE)] } }
        \cup { NotADict }

StripProblemIds ==
    { None, Some(pid_Detect), Some(pid_k8s_detection), Some(pid_noop_mitigation) }

StripDocs ==
    LET withId == { << >> } \cup { [problem_id |-> p] : p \in StripProblemIds }
    IN  withId \cup { d @@ [results |-> r] : d \in withId, r \in StripResults }

StripFileContents == { Parsed(d) : d \in StripDocs } \cup { Garbage }

\* remove_supervisor_fields with the deletion made on a private copy of
\* results: the fields are reported and the returned document keeps them.
remove_supervisor_fields_CopyNotStripped(data) ==
    IF "results" \notin DOMAIN data THEN << data, << >> >>
    ELSE IF ~ IsDict(data["results"]) THEN << data, << >> >>
    ELSE << data, SelectSeq(fields_to_remove,
                            LAMBDA field : field \in DOMAIN data["results"][2]) >>

\* remove_supervisor_fields that appends every field name to the report.
remove_supervisor_fields_ReportsAll(data) ==
    IF "results" \notin DOMAIN data THEN << data, << >> >>
    ELSE IF ~ IsDict(data["results"]) THEN << data, << >> >>
    ELSE LET res == data["results"][2]
         IN  << Put(data, "results",
                    Dict([k \in DOMAIN res \ Range(fields_to_remove) |-> res[k]])),
                fields_to_remove >>

\* remove_supervisor_fields whose list of fields lacks supervisor_explanation.
remove_supervisor_fields_OneField(data) ==
    IF "results" \notin DOMAIN data THEN << data, << >> >>
    ELSE IF ~ IsDict(data["results"]) THEN << data, << >> >>
    ELSE LET res == data["results"][2]
         IN  << Put(data, "results", Dict(Del(res, "supervisor_result"))),
                SelectSeq(<< "supervisor_result" >>, LAMBDA field : field \in DOMAIN res) >>

\* The for loop of remove_supervisor_fields over fields_to_remove[i..]:
\* << results, removed_fields >> when it ends.
RECURSIVE RemoveLoop(_, _, _)
RemoveLoop(res, removed_fields, i) ==
    IF i > Len(fields_to_remove) THEN << res, removed_fields >>
    ELSE LET field == fields_to_remove[i]
         IN  IF field \in DOMAIN res
             THEN RemoveLoop(Del(res, field), Append(removed_fields, field), i + 1)
             ELSE RemoveLoop(res, removed_fields, i + 1)

\* remove_supervisor.py: remove_supervisor_fields.
\* The result is << modified_data, removed_fields >>.
remove_supervisor_fields(data) ==
    IF "results" \notin DOMAIN data THEN << data, << >> >>
    ELSE IF ~ IsDict(data["results"]) THEN << data, << >> >>
    ELSE LET out == RemoveLoop(data["results"][2], << >>, 1)
         IN  << Put(data, "results", Dict(out[1])), out[2] >>

Runs == { "first", "second" }

NoSummary == [processed_files |-> 0, non_detection_files |-> 0, modified_files |-> 0]

InitStrip ==
    /\ corpus \in [Files -> StripFileContents]
    /\ run = "first"
    /\ pos = 0
    /\ called = [r \in Runs |-> [f \in Files |-> FALSE]]
    /\ removed = [r \in Runs |-> [f \in Files |-> << >>]]
    /\ written = [r \in Runs |-> [f \in Files |-> FALSE]]
    /\ prev = [r \in Runs |-> corpus]
    /\ summary = [r \in Runs |-> NoSummary]
    /\ IdleResolve /\ IdleAgg /\ IdleObs /\ IdleMain /\ IdleClassify /\ IdleExtract

\* A file written back whether or not a field was removed.
HasRemovedFields_Always(removed_fields) == TRUE

\* if removed_fields:
HasRemovedFields(removed_fields) == removed_fields # << >>

\* One iteration of the for loop of process_directory, on file pos + 1.
ProcessFile ==
    /\ run \in Runs
    /\ pos < MaxFiles
    /\ LET f == pos + 1
           content == corpus[f]
           Skip(n) ==
               /\ summary' = [summary EXCEPT ![run].processed_files = @ + n]
               /\ UNCHANGED << corpus, called, removed, written >>
       IN  /\ pos' = f
           /\ IF content = Garbage
              THEN Skip(0)                               \* json.JSONDecodeError
              ELSE LET data == content[2]
                   IN  IF "problem_id" \notin DOMAIN data
                       THEN Skip(1)
                       ELSE IF data["problem_id"] = None
                       THEN Skip(1)                      \* None.lower() raises
                       ELSE IF is_detection_task(data["problem_id"][1])
                       THEN Skip(1)
                       ELSE LET out == remove_supervisor_fields(data)
                                modified_data == out[1]
                                removed_fields == out[2]
                            IN  /\ called' = [called EXCEPT ![run][f] = TRUE]
                                /\ removed' = [removed EXCEPT ![run][f] = removed_fields]
                                /\ IF HasRemovedFields(removed_fields)
                                   THEN /\ corpus' = [corpus EXCEPT ![f] = Parsed(modified_data)]
                                        /\ written' = [written EXCEPT ![run][f] = TRUE]
                                        /\ summary' = [summary EXCEPT
                                               ![run].processed_files = @ + 1,
                                               ![run].non_detection_files = @ + 1,
                                               ![run].modified_files = @ + 1]
                                   ELSE /\ UNCHANGED << corpus, written >>
                                        /\ summary' = [summary EXCEPT
                                               ![run].processed_files = @ + 1,
                                               ![run].non_detection_files = @ + 1]
    /\ UNCHANGED << run, prev, rsVars, aggVars, obsVars, mainVars, clVars, ecVars >>

\* process_directory returns and is started again on the same directory.
RunAgain ==
    /\ run = "first"
    /\ pos = MaxFiles
    /\ run' = "second"
    /\ pos' = 0
    /\ prev' = [prev EXCEPT !["second"] = corpus]
    /\ UNCHANGED << corpus, called, removed, written, summary, rsVars, aggVars, obsVars, mainVars, clVars, ecVars >>

NextStrip == ProcessFile \/ RunAgain

SpecStrip == InitStrip /\ [][NextStrip]_vars

\* Whether file f has been handled in run r, and the corpus as run r left it
\* (for the run under way: as it is now).
Handled(r, f) == IF r = run THEN f <= pos ELSE r = "first"

After(r) == IF r = "first" /\ run = "second" THEN prev["second"] ELSE corpus

IsStrippable(content) ==
    /\ content # Garbage
    /\ "problem_id" \in DOMAIN content[2]
    /\ content[2]["problem_id"] # None
    /\ ~ is_detection_task(content[2]["problem_id"][1])

HasDictResults(content) ==
    /\ content # Garbage
    /\ "results" \in DOMAIN content[2]
    /\ IsDict(content[2]["results"])

\* C5: a second run of process_directory on the output of a first run
\* reports no removed field for any document and changes no document.
C5_SecondRunNoChange ==
    run = "second"
        => /\ corpus = prev["second"]
           /\ \A f \in Files : removed["second"][f] = << >> /\ ~ written["second"][f]

C5_Witness ==
    /\ run = "second" /\ pos = MaxFiles
    /\ \E f \in Files :
          /\ removed["first"][f] = fields_to_remove
          /\ called["second"][f]
          /\ removed["second"][f] = << >>

\* The document a non-detection document must become: the same keys and
\* values, but for supervisor_result and supervisor_explanation in results.
Stripped(content) ==
    IF HasDictResults(content)
    THEN LET res == content[2]["results"][2]
         IN  Parsed([content[2] EXCEPT !["results"] =
                 Dict([k \in DOMAIN res \ { "supervisor_result", "supervisor_explanation" }
                          |-> res[k]])])
    ELSE content

\* C6: process_directory removes supervisor_result and
\* supervisor_explanation from results of every document whose problem_id
\* is not detection-family, leaves every detection-family document as it
\* was, and removes or alters no other key of any document.
C6_StripScope ==
    \A r \in Runs : \A f \in Files :
        Handled(r, f)
            => After(r)[f] = IF IsStrippable(prev[r][f])
                             THEN Stripped(prev[r][f])
                             ELSE prev[r][f]

C6_Witness ==
    /\ run = "first" /\ pos = MaxFiles
    /\ \E f, g \in Files :
          /\ IsStrippable(prev["first"][f])
          /\ HasDictResults(prev["first"][f])
          /\ DOMAIN prev["first"][f][2]["results"][2]
                = { "supervisor_result", "supervisor_explanation", "success" }
          /\ DOMAIN corpus[f][2]["results"][2] = { "success" }
          /\ ~ IsStrippable(prev["first"][g])
          /\ HasDictResults(corpus[g])
          /\ "problem_id" \in DOMAIN corpus[g][2]
          /\ corpus[g][2]["problem_id"] = Some(pid_Detect)
          /\ "supervisor_result" \in DOMAIN corpus[g][2]["results"][2]

\* C7: the list remove_supervisor_fields returns holds exactly the fields
\* among supervisor_result and supervisor_explanation that results held
\* before the call and lacks after it, each once; it is empty when results
\* held neither, is missing, or is not a mapping.
C7_AuditReport ==
    \A r \in Runs : \A f \in Files :
        (Handled(r, f) /\ called[r][f])
            => LET before == prev[r][f]
                   after == After(r)[f]
                   gone == IF HasDictResults(before)
                           THEN { k \in Range(fields_to_remove) :
                                    /\ k \in DOMAIN before[2]["results"][2]
                                    /\ k \notin DOMAIN after[2]["results"][2] }
                           ELSE {}
               IN  /\ Range(removed[r][f]) = gone
                   /\ Len(removed[r][f]) = Cardinality(gone)

C7_Witness ==
    /\ \E f \in Files :
          /\ called["first"][f] /\ Handled("first", f)
          /\ removed["first"][f] = << "supervisor_explanation" >>
    /\ \E f \in Files :
          /\ called["first"][f] /\ Handled("first", f)
          /\ ~ HasDictResults(prev["first"][f])
          /\ "results" \in DOMAIN prev["first"][f][2]
          /\ removed["first"][f] = << >>

-----------------------------------------------------------------------------
(* SpecAgg: analyze_benchmark_results.py, the loop of analyze_results *)

MaxResultFiles == 3

\* The json value of a key that cannot be a dict key (a list): stats[..][agent]
\* raises TypeError for it.
Unhashable == << "list", << >> >>

\* The documents the result files hold.  Times and token counts are
\* integers: sums are exact.
AggFileContents ==
    << \* 1: detection, correct, timed by end_time - start_time
       Parsed([agent |-> Some("a1"), problem_id |-> Some(pid_k8s_detection),
               start_time |-> Some(1), end_time |-> Some(3),
               results |-> Dict([in_tokens |-> Some(2), out_tokens |-> Some(1),
                                 TTD |-> Some(3)]
                                @@ ("Detection Accuracy" :> Some("Correct")))]),
       \* 2: explicit failure, no times
       Parsed([agent |-> Some("a1"), problem_id |-> Some(pid_noop_mitigation),
               results |-> Dict([success |-> Some(FALSE), in_tokens |-> Some(1)])]),
       \* 3: no agent, no success indicator
       Parsed([problem_id |-> Some(pid_k8s_detection), results |-> Dict(<< >>)]),
       \* 4: identifier without '-', generic Accuracy
       Parsed([agent |-> Some("a2"), problem_id |-> Some(pid_plain),
               results |-> Dict([Accuracy |-> Some("Incorrect"), TTM |-> Some(2),
                                 out_tokens |-> Some(2)])]),
       \* 5: in_tokens is null
       Parsed([agent |-> Some("a1"), problem_id |-> Some(pid_k8s_detection),
               results |-> Dict([success |-> Some(TRUE), in_tokens |-> None])]),
       \* 6: out_tokens is null
       Parsed([agent |-> Some("a2"), problem_id |-> Some(pid_noop_mitigation),
               results |-> Dict([in_tokens |-> Some(1), out_tokens |-> None]
                                @@ ("Mitigation Accuracy" :> Some("Correct")))]),
       \* 7: TTM is null and no times
       Parsed([agent |-> Some("a2"), problem_id |-> Some(pid_k8s_detection),
               results |-> Dict([success |-> Some(TRUE), TTM |-> None])]),
       \* 8: agent is a list
       Parsed([agent |-> Unhashable, problem_id |-> Some(pid_noop_mitigation),
               results |-> Dict([success |-> Some(TRUE)])]),
       \* 9: problem_id is null
       Parsed([agent |-> Some("a1"), problem_id |-> None,
               results |-> Dict([success |-> Some(TRUE)])]),
       \* 10: start_time is null
       Parsed([agent |-> Some("a1"), problem_id |-> Some(pid_noop_mitigation),
               start_time |-> None, end_time |-> Some(2),
               results |-> Dict([success |-> Some(TRUE)])]),
       \* 11: results is not a mapping
       Parsed([agent |-> Some("a1"), problem_id |-> Some(pid_noop_mitigation),
               results |-> NotADict]),
       \* 12: not JSON
       Garbage,
       \* 13: the empty document
       Parsed(<< >>),
       \* 14: end_time before start_time, timed by TTA
       Parsed([agent |-> Some("a2"), problem_id |-> Some(pid_analysis),
               start_time |-> Some(2), end_time |-> Some(1),
               results |-> Dict([TTA |-> Some(1), in_tokens |-> Some(1),
                                 out_tokens |-> Some(1)]
                                @@ ("Analysis Accuracy" :> Some("Correct")))]) >>

\* lambda: {'total': 0, 'success': 0, 'failed': 0, ...}
NewGroup == [total |-> 0, success |-> 0, failed |-> 0,
             tokens_in |-> 0, tokens_out |-> 0, total_time |-> 0]

\* stats[table][key] of a defaultdict: the entry, made if missing
Entry(table, key) == IF key \in DOMAIN table THEN table[key] ELSE NewGroup

EmptyStats ==
    [total_cases |-> 0, successful_cases |-> 0, failed_cases |-> 0,
     by_agent |-> << >>, by_problem_type |-> << >>,
     by_task_type |-> << >>, by_category |-> << >>,
     detailed_cases |-> << >>]

\* g['total'] += 1, then g['success'] += 1 or g['failed'] += 1
Counted(g, success) ==
    IF Truthy(success)
    THEN [g EXCEPT !.total = @ + 1, !.success = @ + 1]
    ELSE [g EXCEPT !.total = @ + 1, !.failed = @ + 1]

\* A group update that stores the last execution time instead of adding it.
UpdateGroup_TimeAssigned(table, key, success, in_tokens, out_tokens, execution_time) ==
    Put(table, key,
        [Counted(Entry(table, key), success) EXCEPT
            !.tokens_in = @ + in_tokens,
            !.tokens_out = @ + out_tokens,
            !.total_time = execution_time])

\* A group update without the else branch: failed is never incremented.
UpdateGroup_NoFailed(table, key, success, in_tokens, out_tokens, execution_time) ==
    Put(table, key,
        [Entry(table, key) EXCEPT
            !.total = @ + 1,
            !.success = IF Truthy(success) THEN @ + 1 ELSE @,
            !.tokens_in = @ + in_tokens,
            !.tokens_out = @ + out_tokens,
            !.total_time = @ + execution_time])

\* One "Update by ..." block that runs to its end, on integers.
UpdateGroup(table, key, success, in_tokens, out_tokens, execution_time) ==
    Put(table, key,
        [Counted(Entry(table, key), success) EXCEPT
            !.tokens_in = @ + in_tokens,
            !.tokens_out = @ + out_tokens,
            !.total_time = @ + execution_time])

\* The time-metric chain: ttm
TaskTime(res) ==
    IF "TTM" \in DOMAIN res THEN Get(res, "TTM", Some(0))
    ELSE IF "TTD" \in DOMAIN res THEN Get(res, "TTD", Some(0))
    ELSE IF "TTL" \in DOMAIN res THEN Get(res, "TTL", Some(0))
    ELSE IF "TTA" \in DOMAIN res THEN Get(res, "TTA", Some(0))
    ELSE Some(0)

\* The body of the for loop of analyze_results on one file: the stats it
\* leaves.  An exception ends the body where it is raised and keeps what
\* was already added.
ProcessCase(st, content, file_path) ==
    IF content = Garbage THEN st                                \* json.load
    ELSE
    LET data == content[2]
        agent == Get(data, "agent", Some("unknown"))
        problem_id == Get(data, "problem_id", Some(s_unknown))
        start_time == Get(data, "start_time", Some(0))
        end_time == Get(data, "end_time", Some(0))
        results_v == Get(data, "results", Dict(<< >>))
    IN
    IF ~ IsDict(results_v) THEN st                              \* results.get
    ELSE
    LET res == results_v[2]
        success == SuccessResults(res)[1]
        ttm == TaskTime(res)
        steps == Get(res, "steps", Some(0))
        in_tokens == Get(res, "in_tokens", Some(0))
        out_tokens == Get(res, "out_tokens", Some(0))
    IN
    IF start_time = None \/ end_time = None THEN st             \* end_time > start_time
    ELSE
    LET execution_time == IF end_time[1] > start_time[1]
                          THEN Some(end_time[1] - start_time[1])
                          ELSE ttm
    IN
    IF problem_id = None THEN st                                \* problem_id.split
    ELSE
    LET info == extract_problem_info(problem_id[1])
        problem_base == info[1]
        task_type == info[2]
        category == categorize_problem_type(problem_base)
        st1 == IF Truthy(success)
               THEN [st EXCEPT !.total_cases = @ + 1, !.successful_cases = @ + 1]
               ELSE [st EXCEPT !.total_cases = @ + 1, !.failed_cases = @ + 1]
    IN
    IF agent = Unhashable THEN st1                              \* stats['by_agent'][agent]
    ELSE
    LET agent_stats == Counted(Entry(st1.by_agent, agent), success)
        st2 == [st1 EXCEPT !.by_agent = Put(@, agent, agent_stats)]
    IN
    IF in_tokens = None THEN st2                                \* += in_tokens
    ELSE
    LET st3 == [st2 EXCEPT !.by_agent[agent].tokens_in = @ + in_tokens[1]]
    IN
    IF out_tokens = None THEN st3                               \* += out_tokens
    ELSE
    LET st4 == [st3 EXCEPT !.by_agent[agent].tokens_out = @ + out_tokens[1]]
    IN
    IF execution_time = None THEN st4                           \* += execution_time
    ELSE
    LET st5 == [st4 EXCEPT !.by_agent[agent].total_time = @ + execution_time[1]]
        case_detail ==
            [session_id |-> Get(data, "session_id", Some("unknown")),
             agent |-> agent, problem_id |-> problem_id,
             problem_base |-> problem_base, task_type |-> task_type,
             category |-> category, success |-> success,
             execution_time |-> execution_time[1], task_time |-> ttm,
             steps |-> steps, in_tokens |-> in_tokens[1],
             out_tokens |-> out_tokens[1],
             total_tokens |-> in_tokens[1] + out_tokens[1],
             file_path |-> file_path]
    IN  [st5 EXCEPT
            !.by_problem_type = UpdateGroup(@, problem_base, success,
                                    in_tokens[1], out_tokens[1], execution_time[1]),
            !.by_task_type = UpdateGroup(@, task_type, success,
                                    in_tokens[1], out_tokens[1], execution_time[1]),
            !.by_category = UpdateGroup(@, category, success,
                                    in_tokens[1], out_tokens[1], execution_time[1]),
            !.detailed_cases = Append(@, case_detail)]

InitAgg ==
    /\ stats = EmptyStats
    /\ processed = << >>
    /\ IdleResolve /\ IdleStrip /\ IdleObs /\ IdleMain /\ IdleClassify /\ IdleExtract

\* analyze_results takes the next file of json_files; processed lists the
\* files taken so far, by their number in AggFileContents.
ProcessResultFile ==
    /\ Len(processed) < MaxResultFiles
    /\ \E n \in 1..Len(AggFileContents) :
          /\ stats' = ProcessCase(stats, AggFileContents[n], Len(processed) + 1)
          /\ processed' = Append(processed, n)
    /\ UNCHANGED << rsVars, stripVars, obsVars, mainVars, clVars, ecVars >>

NextAgg == ProcessResultFile

SpecAgg == InitAgg /\ [][NextAgg]_vars

\* analyze_results on the files of order, taken in that order.
RECURSIVE FoldFiles(_, _, _)
FoldFiles(st, order, i) ==
    IF i > Len(order) THEN st
    ELSE FoldFiles(ProcessCase(st, AggFileContents[order[i]], i), order, i + 1)

\* The counters and the four group tables: all of stats but detailed_cases.
Tables(st) == [st EXCEPT !.detailed_cases = << >>]

GroupTables(st) ==
    << st.by_agent, st.by_problem_type, st.by_task_type, st.by_category >>

\* The key of a detailed case in each of the four tables.
CaseKeys(case) == << case.agent, case.problem_base, case.task_type, case.category >>

\* The file holds a document whose results carry no success indicator.
NoSignal(content) ==
    /\ content # Garbage
    /\ IsDict(Get(content[2], "results", Dict(<< >>)))
    /\ LET res == Get(content[2], "results", Dict(<< >>))[2]
       IN  /\ "success" \notin DOMAIN res
           /\ \A i \in 1..Len(AccuracyKeys) : AccuracyKeys[i] \notin DOMAIN res

\* The file a detailed case was read from.
SourceOf(case) == AggFileContents[processed[case.file_path]]

\* C3: a results mapping with none of success and the accuracy keys
\* resolves to unknown, not false, and its record increments neither the
\* successful nor the failed counter.
C3_UnknownNotFailed ==
    /\ \A i \in 1..Len(stats.detailed_cases) :
          NoSignal(SourceOf(stats.detailed_cases[i]))
              => stats.detailed_cases[i].success = None
    /\ LET unknown == { i \in 1..Len(stats.detailed_cases) :
                          NoSignal(SourceOf(stats.detailed_cases[i])) }
       IN  stats.successful_cases + stats.failed_cases + Cardinality(unknown)
               <= stats.total_cases

C10_CountInvariant ==
    /\ stats.successful_cases + stats.failed_cases <= stats.total_cases
    /\ stats.successful_cases + stats.failed_cases < stats.total_cases
          => \E i \in 1..Len(stats.detailed_cases) :
                NoSignal(SourceOf(stats.detailed_cases[i]))
    /\ \A t \in 1..4 :
          LET table == GroupTables(stats)[t]
          IN  \A key \in DOMAIN table :
                 /\ table[key].success + table[key].failed <= table[key].total
                 /\ table[key].success + table[key].failed < table[key].total
                       => \E i \in 1..Len(stats.detailed_cases) :
                             /\ CaseKeys(stats.detailed_cases[i])[t] = key
                             /\ NoSignal(SourceOf(stats.detailed_cases[i]))

C10_Witness ==
    /\ Len(processed) = MaxResultFiles
    /\ Range(processed) = { 1, 3, 5 }
    /\ stats.total_cases = 3
    /\ stats.by_category["infrastructure"].total = 2
    /\ stats.by_category["infrastructure"].success = 1
    /\ stats.by_category["infrastructure"].failed = 1
    /\ stats.by_agent[Some("a1")].success = 2

-----------------------------------------------------------------------------
(* SpecObs: benchmark_analyzer.py, analyze_json_files and the reports of main *)

MaxJsonFiles == 3

\* The documents the input directory holds.
ObsFileContents ==
    << \* 1: detection, confirmed by the supervisor
       Parsed([problem_id |-> Some(pid_k8s_detection),
               start_time |-> Some(1), end_time |-> Some(4),
               results |-> Dict([steps |-> Some(3), supervisor_result |-> Some("Correct")]
                                @@ ("Detection Accuracy" :> Some("Correct")))]),
       \* 2: detection, no supervisor_result
       Parsed([problem_id |-> Some(pid_k8s_detection),
               start_time |-> Some(2), end_time |-> Some(3),
               results |-> Dict([steps |-> Some(5)]
                                @@ ("Detection Accuracy" :> Some("Correct")))]),
       \* 3: mitigation, explicit success, neither times nor steps
       Parsed([problem_id |-> Some(pid_noop_mitigation),
               results |-> Dict([success |-> Some(TRUE)])]),
       \* 4: mitigation, explicit failure
       Parsed([problem_id |-> Some(pid_noop_mitigation),
               start_time |-> Some(1), end_time |-> Some(3),
               results |-> Dict([success |-> Some(FALSE), steps |-> Some(2)])]),
       \* 5: analysis, no success indicator, start_time 0
       Parsed([problem_id |-> Some(pid_analysis),
               start_time |-> Some(0), end_time |-> Some(5),
               results |-> Dict(<< >>)]),
       \* 6: no problem_id
       Parsed([results |-> Dict([Accuracy |-> Some("Correct")])]),
       \* 7: not JSON
       Garbage,
       \* 8: results is not a mapping
       Parsed([problem_id |-> Some(pid_noop_mitigation), results |-> NotADict]),
       \* 9: identifier with an upper-case, shortened keyword
       Parsed([problem_id |-> Some(pid_Detect),
               results |-> Dict([success |-> Some(TRUE), steps |-> Some(1)])]),
       \* 10: localization, wrong
       Parsed([problem_id |-> Some(pid_localization),
               start_time |-> Some(1), end_time |-> Some(2),
               results |-> Dict([steps |-> Some(1)]
                                @@ ("Localization Accuracy" :> Some("Incorrect")))]) >>

\* convert_timestamp_to_utc: None, or the formatted date of the timestamp,
\* kept as the pair of the format's name and the second it denotes.
convert_timestamp_to_utc(timestamp) ==
    IF timestamp = None THEN None ELSE Some(<< "%Y-%m-%d %H:%M:%S", timestamp[1] >>)

\* if x:   for a number or None
TruthyNumber(x) == x # None /\ x[1] # 0

\* The batch given up at the first exception: nothing is returned.
ContinueAfterError_Abort(rs) == << >>

\* except Exception: print, continue.  The list is as it was.
ContinueAfterError(rs) == rs

\* The body of the for loop of analyze_json_files on one file: the results
\* list it leaves.  An exception skips the file.
AnalyzeOne(rs, content, filename, is_supervisor_enabled) ==
    IF content = Garbage THEN ContinueAfterError(rs)            \* json.load
    ELSE
    LET data == content[2]
        results_v == Get(data, "results", Dict(<< >>))
    IN
    IF ~ IsDict(results_v) THEN ContinueAfterError(rs)          \* results.get
    ELSE
    LET results_data == results_v[2]
        start_time == Get(data, "start_time", None)
        end_time == Get(data, "end_time", None)
        result ==
            [filename |-> filename,
             session_id |-> Get(data, "session_id", Some("")),
             problem_id |-> Get(data, "problem_id", Some(<< >>)),
             success |-> SuccessJson(results_data, is_supervisor_enabled),
             task_type |-> extract_task_type(Get(data, "problem_id", Some(<< >>))),
             in_tokens |-> Get(results_data, "in_tokens", None),
             out_tokens |-> Get(results_data, "out_tokens", None),
             start_time |-> convert_timestamp_to_utc(start_time),
             end_time |-> convert_timestamp_to_utc(end_time),
             duration |-> IF TruthyNumber(start_time) /\ TruthyNumber(end_time)
                          THEN Some(end_time[1] - start_time[1])
                          ELSE None,
             steps |-> Get(results_data, "steps", None),
             supervisor_result |-> Get(results_data, "supervisor_result", None)]
    IN  Append(rs, result)

\* Series.dropna() of a column of numbers and None, as the list of numbers
RECURSIVE DropNa(_)
DropNa(xs) ==
    IF Len(xs) = 0 THEN << >>
    ELSE IF Head(xs) = None THEN DropNa(Tail(xs))
    ELSE << Head(xs)[1] >> \o DropNa(Tail(xs))

\* Series.max() and Series.min() of a non-empty list
MaxOf(xs) == CHOOSE x \in Range(xs) : \A y \in Range(xs) : y <= x

MinOf(xs) == CHOOSE x \in Range(xs) : \A y \in Range(xs) : x <= y

\* round(num / den, 2) in hundredths, to the nearest hundredth
Round2(num, den) == (200 * num + den) \div (2 * den)

ZeroRow(task_type) ==
    [taskType |-> task_type, successRate |-> 0, averageTime |-> 0,
     averageSteps |-> 0, longestTime |-> 0, mostSteps |-> 0,
     leastTime |-> 0, leastSteps |-> 0]

\* One pass of the for loop of generate_observation_csv: the row of a task
\* type.  Rates, averages and times are in hundredths.
ObservationRow(df, task_type) ==
    LET task_data == SelectSeq(df, LAMBDA r : r.task_type = task_type)
    IN  IF Len(task_data) = 0 THEN ZeroRow(task_type)
        ELSE
        LET total_tasks == Len(task_data)
            successful_tasks == Len(SelectSeq(task_data, LAMBDA r : r.success = Some(TRUE)))
            time_values == DropNa([i \in 1..Len(task_data) |-> task_data[i].duration])
            step_values == DropNa([i \in 1..Len(task_data) |-> task_data[i].steps])
        IN  [taskType |-> task_type,
             successRate |-> Round2(successful_tasks * 100, total_tasks),
             averageTime |-> IF Len(time_values) > 0
                             THEN Round2(SumSeq(time_values), Len(time_values)) ELSE 0,
             averageSteps |-> IF Len(step_values) > 0
                              THEN Round2(SumSeq(step_values), Len(step_values)) ELSE 0,
             longestTime |-> IF Len(time_values) > 0 THEN 100 * MaxOf(time_values) ELSE 0,
             mostSteps |-> IF Len(step_values) > 0 THEN MaxOf(step_values) ELSE 0,
             leastTime |-> IF Len(time_values) > 0 THEN 100 * MinOf(time_values) ELSE 0,
             leastSteps |-> IF Len(step_values) > 0 THEN MinOf(step_values) ELSE 0]

\* generate_observation_csv that leaves out the task types without records.
ObservationRows_SkipEmpty(df) ==
    LET all == [i \in 1..Len(task_types) |-> ObservationRow(df, task_types[i])]
    IN  SelectSeq(all, LAMBDA row :
            \E i \in 1..Len(df) : df[i].task_type = row.taskType)

\* generate_observation_csv: observation_results
ObservationRows(df) ==
    [i \in 1..Len(task_types) |-> ObservationRow(df, task_types[i])]

\* print_summary_stats: the overall statistics
SummaryStats(df) ==
    [total_tasks |-> Len(df),
     successful_tasks |-> Len(SelectSeq(df, LAMBDA r : r.success = Some(TRUE))),
     failed_tasks |-> Len(SelectSeq(df, LAMBDA r : r.success = Some(FALSE))),
     unknown_tasks |-> Len(SelectSeq(df, LAMBDA r : r.success = None))]

NoReport == [status |-> "pending", rows |-> << >>, summary |-> << >>]

InitObs ==
    /\ supervisor \in BOOLEAN
    /\ results = << >>
    /\ report = NoReport
    /\ IdleResolve /\ IdleStrip /\ IdleAgg /\ IdleMain /\ IdleClassify /\ IdleExtract

\* analyze_json_files takes the next file of json_files.
AnalyzeJsonFile ==
    /\ report.status = "pending"
    /\ Len(results) < MaxJsonFiles
    /\ \E n \in 1..Len(ObsFileContents) :
          results' = AnalyzeOne(results, ObsFileContents[n], n, supervisor)
    /\ UNCHANGED << supervisor, report, rsVars, stripVars, aggVars, mainVars, clVars, ecVars >>

\* main, once analyze_json_files has returned: exit status 1 without
\* results, the reports otherwise.
MainReport ==
    /\ report.status = "pending"
    /\ IF results = << >>
       THEN report' = [report EXCEPT !.status = "exit 1"]
       ELSE \E quiet \in BOOLEAN :
               report' = [status |-> "exit 0",
                          rows |-> ObservationRows(results),
                          summary |-> IF quiet THEN << >> ELSE SummaryStats(results)]
    /\ UNCHANGED << supervisor, results, rsVars, stripVars, aggVars, mainVars, clVars, ecVars >>

NextObs == AnalyzeJsonFile \/ MainReport

SpecObs == InitObs /\ [][NextObs]_vars

\* C9: generate_observation_csv emits four rows, for detection,
\* localization, analysis and mitigation in that order, and the row of a
\* task type without records has rate, averages, maxima and minima all 0.
C9_FixedRows ==
    report.status = "exit 0"
        => /\ Len(report.rows) = 4
           /\ << report.rows[1].taskType, report.rows[2].taskType,
                 report.rows[3].taskType, report.rows[4].taskType >>
                 = << s_detection, s_localization, s_analysis, s_mitigation >>
           /\ \A i \in 1..4 :
                 (\A k \in 1..Len(results) : results[k].task_type # report.rows[i].taskType)
                     => /\ report.rows[i].successRate = 0
                        /\ report.rows[i].averageTime = 0
                        /\ report.rows[i].averageSteps = 0
                        /\ report.rows[i].longestTime = 0
                        /\ report.rows[i].mostSteps = 0
                        /\ report.rows[i].leastTime = 0
                        /\ report.rows[i].leastSteps = 0

C9_Witness ==
    /\ report.status = "exit 0"
    /\ \E k \in 1..Len(results) : results[k].task_type = s_detection
    /\ \A k \in 1..Len(results) : results[k].task_type # s_mitigation
    /\ report.rows[1].successRate = 5000
    /\ report.rows[1].averageTime = 200
    /\ report.rows[4] = ZeroRow(s_mitigation)

-----------------------------------------------------------------------------
(* SpecClassify: the three classifiers on one problem identifier.          *)
(* The identifier is built from segments joined by '-', so that what the   *)
(* classifiers find can be compared with the segments it was built from.   *)

MaxSegments == 3

seg_1 == <<"1">>

seg_Mitigation == <<"M", "i", "t", "i", "g", "a", "t", "i", "o", "n">>

seg_no_op == <<"n", "o", "_", "o", "p">>

seg_network_loss_pod_kill == <<"n", "e", "t", "w", "o", "r", "k", "_", "l", "o", "s", "s", "_", "p", "o", "d", "_", "k", "i", "l", "l">>

seg_pod_kill_misconfig_app == <<"p", "o", "d", "_", "k", "i", "l", "l", "_", "m", "i", "s", "c", "o", "n", "f", "i", "g", "_", "a", "p", "p">>

\* Segments hold no '-': empty, a variant number, task-type names in
\* either case, and fault names of one or of two categories.
Segments == { << >>, seg_1, s_detection, seg_Mitigation, s_analysis,
              s_localization, seg_no_op, seg_network_loss_pod_kill,
              seg_pod_kill_misconfig_app }

SegmentLists == UNION { [1..n -> Segments] : n \in 1..MaxSegments }

\* data.get('problem_id'): absent, or a string.
ClassifyInputs ==
    { [segs |-> << >>, problem_id |-> None] } \cup
    { [segs |-> sl, problem_id |-> Some(Join(sl, "-"))] : sl \in SegmentLists }

NoOutput == [done |-> FALSE]

\* analyze_results: problem_id = data.get('problem_id', 'unknown')
ProblemIdOrDefault(problem_id) ==
    IF problem_id = None THEN s_unknown ELSE problem_id[1]

InitClassify ==
    /\ cl_in \in ClassifyInputs
    /\ cl_out = NoOutput
    /\ IdleResolve /\ IdleStrip /\ IdleAgg /\ IdleObs /\ IdleMain /\ IdleExtract

\* The classification both loaders give the record of one identifier.
Classify ==
    /\ ~cl_out.done
    /\ LET info == extract_problem_info(ProblemIdOrDefault(cl_in.problem_id))
       IN  cl_out' = [done |-> TRUE,
                      task_type |-> extract_task_type(cl_in.problem_id),
                      problem_base |-> info[1],
                      task_type_info |-> info[2],
                      category |-> categorize_problem_type(info[1])]
    /\ UNCHANGED << cl_in, rsVars, stripVars, aggVars, obsVars, mainVars, ecVars >>

NextClassify == Classify

SpecClassify == InitClassify /\ [][NextClassify]_vars

\* The segments of the identifier the record was built from.
SegsOf(input) == IF input.problem_id = None THEN << s_unknown >> ELSE input.segs

\* kw occurs in one of the segments (no keyword holds a '-').
InSegments(kw, segs) == \E i \in 1..Len(segs) : Contains(kw, segs[i])

LowerAll(segs) == [i \in 1..Len(segs) |-> Lower(segs[i])]

\* Some keyword of the i-th category occurs in one of the segments.
CategoryInSegments(i, segs) ==
    \E j \in 1..Len(categories[i].problems) :
        InSegments(categories[i].problems[j], segs)

\* The segments that make up problem_base.
BaseSegs(segs) ==
    IF Len(segs) >= 2 THEN SubSeq(segs, 1, Len(segs) - 2) ELSE segs

TaskTypeDomain == { s_detection, s_localization, s_analysis, s_mitigation, s_unknown }

CategoryDomain == { "infrastructure", "application", "operational", "baseline", "other" }

\* C11: every record of either loader has a task_type among detection,
\* localization, analysis, mitigation, unknown and a category among
\* infrastructure, application, operational, baseline, other.
C11_ClosedDomains ==
    cl_out.done =>
        /\ cl_out.task_type \in TaskTypeDomain
        /\ cl_out.task_type_info \in TaskTypeDomain
        /\ cl_out.category \in CategoryDomain

\* C12: extract_task_type returns the first of detection, localization,
\* analysis, mitigation that occurs in the identifier without regard to
\* case, wherever it stands, and unknown when none does or the identifier
\* is empty or absent.
C12_FirstTaskTypeInOrder ==
    cl_out.done =>
        LET segs == IF cl_in.problem_id = None THEN << >> ELSE LowerAll(cl_in.segs)
        IN  cl_out.task_type =
                IF InSegments(s_detection, segs) THEN s_detection
                ELSE IF InSegments(s_localization, segs) THEN s_localization
                ELSE IF InSegments(s_analysis, segs) THEN s_analysis
                ELSE IF InSegments(s_mitigation, segs) THEN s_mitigation
                ELSE s_unknown

C12_Witness ==
    /\ cl_out.done
    /\ cl_in.segs = << seg_Mitigation, s_detection, seg_1 >>
    /\ cl_out.task_type = s_detection

\* C13: extract_problem_info on an identifier of two or more segments
\* returns the second-to-last segment as task type and the segments before
\* it, joined by '-', as problem_base (empty for exactly two segments);
\* on one segment it returns unknown and the whole identifier.
C13_SecondToLastSegment ==
    (cl_out.done /\ cl_in.problem_id # None) =>
        LET segs == cl_in.segs
            n == Len(segs)
            id == cl_in.problem_id[1]
        IN  IF n >= 3
            THEN /\ cl_out.task_type_info = segs[n - 1]
                 /\ cl_out.problem_base \o <<"-">> \o segs[n - 1] \o <<"-">> \o segs[n] = id
            ELSE IF n = 2
            THEN /\ cl_out.task_type_info = segs[1]
                 /\ cl_out.problem_base = << >>
            ELSE /\ cl_out.task_type_info = s_unknown
                 /\ cl_out.problem_base = id

C13_Witness ==
    /\ cl_out.done
    /\ cl_in.segs = << seg_no_op, seg_Mitigation >>
    /\ cl_out.task_type_info = seg_no_op
    /\ cl_out.problem_base = << >>

\* C14: categorize_problem_type returns the first of infrastructure,
\* application, operational, baseline one of whose keywords occurs in
\* problem_base, the earliest when several match, and other when none does.
C14_FirstCategoryInOrder ==
    cl_out.done =>
        LET segs == BaseSegs(SegsOf(cl_in))
        IN  cl_out.category =
                IF CategoryInSegments(1, segs) THEN "infrastructure"
                ELSE IF CategoryInSegments(2, segs) THEN "application"
                ELSE IF CategoryInSegments(3, segs) THEN "operational"
                ELSE IF CategoryInSegments(4, segs) THEN "baseline"
                ELSE "other"

C14_Witness ==
    /\ cl_out.done
    /\ cl_in.segs = << seg_pod_kill_misconfig_app, s_detection, seg_1 >>
    /\ cl_out.category = "application"

-----------------------------------------------------------------------------
(* SpecBatch: one run of either pipeline over a directory of result files, *)
(* from the first file to the exit status of main.                         *)

MaxBatchFiles == 3

Programs == { "benchmark_analyzer", "analyze_benchmark_results" }

\* The files a directory is filled from, by their number in AggFileContents.
BatchFileNumbers == { 1, 3, 4, 5, 7, 8, 10, 12, 14 }

\* generate_csv_reports: the keys of output_files
ReportNames == { "summary", "agents", "problems", "tasks", "categories", "details" }

InitBatch ==
    /\ program \in Programs
    /\ supervisor \in (IF program = "benchmark_analyzer" THEN BOOLEAN ELSE {FALSE})
    /\ processed = << >>
    /\ results = << >>
    /\ report = NoReport
    /\ stats = EmptyStats
    /\ outcome = NoOutcome
    /\ IdleResolve /\ IdleStrip /\ IdleClassify /\ IdleExtract

\* benchmark_analyzer.py: analyze_json_files takes the next file.
\* processed lists the files taken so far; the file name is its position.
LoadJsonFile ==
    /\ program = "benchmark_analyzer"
    /\ report.status = "pending"
    /\ Len(processed) < MaxBatchFiles
    /\ \E n \in BatchFileNumbers :
          /\ results' = AnalyzeOne(results, AggFileContents[n],
                                   Len(processed) + 1, supervisor)
          /\ processed' = Append(processed, n)
    /\ UNCHANGED << supervisor, report, stats, rsVars, stripVars, mainVars, clVars, ecVars >>

\* benchmark_analyzer.py: main, once analyze_json_files has returned.
MainAnalyzer ==
    /\ program = "benchmark_analyzer"
    /\ MainReport

\* analyze_benchmark_results.py: analyze_results takes the next file.
LoadResultFile ==
    /\ program = "analyze_benchmark_results"
    /\ outcome.status = "pending"
    /\ Len(processed) < MaxBatchFiles
    /\ \E n \in BatchFileNumbers :
          /\ stats' = ProcessCase(stats, AggFileContents[n], Len(processed) + 1)
          /\ processed' = Append(processed, n)
    /\ UNCHANGED << obsVars, rsVars, stripVars, mainVars, clVars, ecVars >>

\* analyze_benchmark_results.py: main, once analyze_results has returned.
\* stats is None only when the directory held no JSON file.
MainResults ==
    /\ program = "analyze_benchmark_results"
    /\ outcome.status = "pending"
    /\ IF processed = << >>
       THEN outcome' = [outcome EXCEPT !.status = "exit 1"]
       ELSE outcome' = [status |-> "exit 0", reports |-> ReportNames]
    /\ UNCHANGED << program, aggVars, obsVars, rsVars, stripVars, clVars, ecVars >>

NextBatch == LoadJsonFile \/ MainAnalyzer \/ LoadResultFile \/ MainResults

SpecBatch == InitBatch /\ [][NextBatch]_vars

\* The content of the i-th file of the directory.
FileAt(i) == AggFileContents[processed[i]]

\* The value of a key of a document, None when the key is absent or null.
Present(d, k) == Get(d, k, None)

\* The duration the resolution order gives a parsed document: the time
\* difference, else the first of TTM, TTD, TTL, TTA, else unknown.
ExpectedDuration(content) ==
    LET data == content[2]
        res == Get(data, "results", Dict(<< >>))[2]
        start_time == Present(data, "start_time")
        end_time == Present(data, "end_time")
    IN  IF start_time # None /\ end_time # None
        THEN Some(end_time[1] - start_time[1])
        ELSE IF Present(res, "TTM") # None THEN res["TTM"]
        ELSE IF Present(res, "TTD") # None THEN res["TTD"]
        ELSE IF Present(res, "TTL") # None THEN res["TTL"]
        ELSE IF Present(res, "TTA") # None THEN res["TTA"]
        ELSE None

\* C15: the duration of a record is end_time - start_time whenever both
\* are present (also when one is 0 or end_time <= start_time), otherwise
\* the first present of TTM, TTD, TTL, TTA, otherwise unknown and never 0.
C15_DurationResolution ==
    /\ \A i \in 1..Len(results) :
          results[i].duration = ExpectedDuration(FileAt(results[i].filename))
    /\ \A i \in 1..Len(stats.detailed_cases) :
          Some(stats.detailed_cases[i].execution_time)
              = ExpectedDuration(FileAt(stats.detailed_cases[i].file_path))

\* json.load raises, or results is not a mapping: both loaders raise.
Unreadable(content) ==
    \/ content = Garbage
    \/ ~ IsDict(Get(content[2], "results", Dict(<< >>)))

\* analyze_json_files raises on the file.
FailsAnalyzer(content) == Unreadable(content)

\* analyze_results raises on the file: on a null time stamp, a null
\* problem_id, an unhashable agent, a null token count, or a null time
\* metric that is needed.
FailsResults(content) ==
    \/ Unreadable(content)
    \/ LET data == content[2]
           res == Get(data, "results", Dict(<< >>))[2]
           start_time == Get(data, "start_time", Some(0))
           end_time == Get(data, "end_time", Some(0))
       IN  \/ start_time = None \/ end_time = None
           \/ Get(data, "problem_id", Some(s_unknown)) = None
           \/ Get(data, "agent", Some("unknown")) = Unhashable
           \/ Get(res, "in_tokens", Some(0)) = None
           \/ Get(res, "out_tokens", Some(0)) = None
           \/ (end_time[1] <= start_time[1] /\ TaskTime(res) = None)

\* The positions of the directory whose file the running loader raises on.
Failing ==
    { i \in 1..Len(processed) :
        IF program = "benchmark_analyzer"
        THEN FailsAnalyzer(FileAt(i)) ELSE FailsResults(FileAt(i)) }

\* The file names of the records made so far, in the order made.
RecordFiles ==
    IF program = "benchmark_analyzer"
    THEN [i \in 1..Len(results) |-> results[i].filename]
    ELSE [i \in 1..Len(stats.detailed_cases) |-> stats.detailed_cases[i].file_path]

\* C16: in both loaders a file that raises is skipped and every other file
\* of the directory yields exactly one record; the batch is never aborted.
C16_FailureIsolation ==
    /\ \A i \in 1..Len(processed) :
          Cardinality({ k \in 1..Len(RecordFiles) : RecordFiles[k] = i })
              = IF i \in Failing THEN 0 ELSE 1
    /\ \A k \in 1..Len(RecordFiles) : RecordFiles[k] \in 1..Len(processed)

C16_Witness ==
    /\ program = "benchmark_analyzer"
    /\ processed = << 1, 12, 14 >>
    /\ RecordFiles = << 1, 3 >>

\* C17: in both pipelines, when no file was processed successfully (no
\* JSON file, or every file skipped) main returns non-zero and generates
\* no report.
C17_EmptyResultSetFatal ==
    (Failing = 1..Len(processed)) =>
        /\ report.status # "pending" => (report.status = "exit 1" /\ report.rows = << >>)
        /\ outcome.status # "pending" => (outcome.status = "exit 1" /\ outcome.reports = {})

-----------------------------------------------------------------------------
(* Frame conditions of analyze_results and of process_directory *)

\* C18: when analyze_results raises on a file, at whatever point of the
\* loop body, the counters, the four group tables and detailed_cases are
\* left as they were before the file.
C18_AtomicSkip ==
    [][ (/\ processed' # processed
         /\ FailsResults(AggFileContents[processed'[Len(processed')]]))
            => stats' = stats ]_vars

\* The sum of one field over the groups of a table.
RECURSIVE SumTable(_, _)
SumTable(table, field) ==
    IF DOMAIN table = {} THEN 0
    ELSE LET k == CHOOSE x \in DOMAIN table : TRUE
         IN  table[k][field] + SumTable(Del(table, k), field)

\* C19: after any number of files total_cases is the number of detailed
\* cases, and in each of the four group tables the totals, successes and
\* failures of the groups add up to the overall counters.
C19_TablesAgree ==
    /\ stats.total_cases = Len(stats.detailed_cases)
    /\ \A i \in 1..4 :
          /\ SumTable(GroupTables(stats)[i], "total") = stats.total_cases
          /\ SumTable(GroupTables(stats)[i], "success") = stats.successful_cases
          /\ SumTable(GroupTables(stats)[i], "failed") = stats.failed_cases

\* results of the document holds one of the fields to remove.
HoldsSupervisorField(content) ==
    /\ HasDictResults(content)
    /\ \E i \in 1..Len(fields_to_remove) :
          fields_to_remove[i] \in DOMAIN content[2]["results"][2]

\* C20: process_directory writes a file back only if its document has a
\* problem_id, is not a detection task and lost at least one supervisor
\* field; no other file is written.
C20_WriteFrame ==
    \A r \in Runs : \A f \in Files :
        written[r][f] =>
            /\ Handled(r, f)
            /\ IsStrippable(prev[r][f])
            /\ HoldsSupervisorField(prev[r][f])
            /\ removed[r][f] # << >>

C20_Witness ==
    /\ run = "first" /\ pos = MaxFiles
    /\ \E f, g \in Files :
          /\ written["first"][f]
          /\ HoldsSupervisorField(prev["first"][f])
          /\ ~ HoldsSupervisorField(corpus[f])
          /\ ~ written["first"][g]
          /\ IsStrippable(prev["first"][g])
          /\ ~ HoldsSupervisorField(prev["first"][g])

-----------------------------------------------------------------------------
(* SpecExtract: processing_file of extract_conversations.py on one file.   *)
(* A line is kept without its newline; positions count from 1, so ec_i is  *)
(* the i of the code plus one.                                             *)

MaxLines == 5

l_prompt == "===== prompt ====="

l_agent == "===== Agent (react) ====="

l_result == "===== Result ====="

l_indented_agent == "  ===== Agent (react) ====="

l_text == "check the pods"

l_blank == "  "

\* The line of three backquotes that opens or closes a code block.
l_fence == "<fence>"

l_exec == "exec_shell('kubectl get pods')"

l_command == "kubectl get pods"

LineTexts == { l_prompt, l_agent, l_result, l_indented_agent,
               l_text, l_blank, l_fence, l_exec }

\* str.rstrip() of a line
Rstrip(line) == IF line = l_blank THEN "" ELSE line

\* str.lstrip() of a line
Lstrip(line) ==
    IF line = l_blank THEN ""
    ELSE IF line = l_indented_agent THEN l_agent
    ELSE line

\* str.strip() of a line
Strip(line) == Lstrip(Rstrip(line))

\* line.startswith("=====")
StartsWithDelimiter(line) == line \in { l_prompt, l_agent, l_result }

\* PROMPT_PATTERN.match(line)
PROMPT_PATTERN(line) == line = l_prompt

\* AGENT_PATTERN.match(line)
AGENT_PATTERN(line) == line = l_agent

\* "\n".join(content_lines).strip(), kept as the list of its lines; the
\* empty string is the empty list.
RECURSIVE StripContent(_)
StripContent(content_lines) ==
    IF Len(content_lines) = 0 THEN << >>
    ELSE IF Lstrip(Head(content_lines)) = "" THEN StripContent(Tail(content_lines))
    ELSE IF Rstrip(content_lines[Len(content_lines)]) = ""
    THEN StripContent(SubSeq(content_lines, 1, Len(content_lines) - 1))
    ELSE << Lstrip(Head(content_lines)) >> \o Tail(content_lines)

\* read_content_until_delimiter, from position start_index of lines.
read_content_until_delimiter(lines, start_index) ==
    LET stops == { k \in start_index..Len(lines) :
                     StartsWithDelimiter(Rstrip(lines[k])) }
        last == IF stops = {} THEN Len(lines)
                ELSE (CHOOSE k \in stops : \A m \in stops : k <= m) - 1
    IN  StripContent([k \in 1..(last - start_index + 1) |->
                        Rstrip(lines[start_index + k - 1])])

\* CODE_BLOCK_PATTERN.match(raw_response) and group(1).strip()
CodeBlock(raw_response) ==
    IF /\ Len(raw_response) >= 3
       /\ raw_response[1] = l_fence
       /\ raw_response[Len(raw_response)] = l_fence
    THEN StripContent(SubSeq(raw_response, 2, Len(raw_response) - 1))
    ELSE raw_response

\* EXEC_SHELL_PATTERN.match(response) and group(1)
ExecShell(response) ==
    IF Len(response) >= 1 /\ response[1] = l_exec
    THEN << l_command >>
    ELSE response

\* The positions the inner while loop can stop at: Agent lines after i.
AgentLines(lines, i) ==
    { j \in (i + 1)..Len(lines) : AGENT_PATTERN(Strip(lines[j])) }

ExtractFiles == UNION { [1..n -> LineTexts] : n \in 0..MaxLines }

InitExtract ==
    /\ ec_lines \in ExtractFiles
    /\ ec_i = 1
    /\ ec_res = << >>
    /\ ec_pairs = << >>
    /\ ec_pc = "scan"
    /\ IdleResolve /\ IdleStrip /\ IdleAgg /\ IdleObs /\ IdleMain /\ IdleClassify

\* One iteration of the outer while loop, on line ec_i.  ec_pairs keeps,
\* for each conversation appended, the prompt line and the Agent line used.
ScanLine ==
    /\ ec_pc = "scan"
    /\ ec_i <= Len(ec_lines)
    /\ LET line == Strip(ec_lines[ec_i])
           prompt == read_content_until_delimiter(ec_lines, ec_i + 1)
           found == AgentLines(ec_lines, ec_i)
       IN  IF PROMPT_PATTERN(line) /\ found # {}
           THEN LET j == CHOOSE k \in found : \A m \in found : k <= m
                    raw_response == read_content_until_delimiter(ec_lines, j + 1)
                    response == ExecShell(CodeBlock(raw_response))
                IN  /\ ec_res' = Append(ec_res, [prompt |-> prompt,
                                                 response |-> response])
                    /\ ec_pairs' = Append(ec_pairs, << ec_i, j >>)
           ELSE UNCHANGED << ec_res, ec_pairs >>
    /\ ec_i' = ec_i + 1
    /\ UNCHANGED << ec_lines, ec_pc, rsVars, stripVars, aggVars, obsVars, mainVars, clVars >>

\* The outer loop ends: return res.
ReturnRes ==
    /\ ec_pc = "scan"
    /\ ec_i > Len(ec_lines)
    /\ ec_pc' = "returned"
    /\ UNCHANGED << ec_lines, ec_i, ec_res, ec_pairs,
                    rsVars, stripVars, aggVars, obsVars, mainVars, clVars >>

NextExtract == ScanLine \/ ReturnRes

SpecExtract == InitExtract /\ [][NextExtract]_vars

\* C21: processing_file emits at most one conversation per prompt marker,
\* in marker order, and no Agent block is the response of more than one
\* conversation: a prompt with no Agent block before the next prompt
\* marker does not take the Agent block of the next prompt.
C21_ConversationPairing ==
    /\ Len(ec_res) = Len(ec_pairs)
    /\ \A a \in 1..Len(ec_pairs) :
          /\ PROMPT_PATTERN(Strip(ec_lines[ec_pairs[a][1]]))
          /\ \A b \in (a + 1)..Len(ec_pairs) : ec_pairs[a][1] < ec_pairs[b][1]
    /\ \A a, b \in 1..Len(ec_pairs) :
          a # b => ec_pairs[a][2] # ec_pairs[b][2]
    /\ \A a \in 1..Len(ec_pairs) :
          \A m \in (ec_pairs[a][1] + 1)..(ec_pairs[a][2] - 1) :
              ~ PROMPT_PATTERN(Strip(ec_lines[m]))

=============================================================================
